---- MODULE Spec2Model ----
(***************************************************************************)
(* Transitional Markov Chain Monte Carlo (modules/performUQ/common/        *)
(* tmcmc.py): the multi-stage driver TMCMC.run, one stage of it            *)
(* (TMCMC._run_one_stage), the temperature stepper _increment_beta and the *)
(* warm-start selector calculate_warm_start_stage.                         *)
(*                                                                         *)
(* Number representation.  beta lives on the grid 0..BetaOne, BetaOne      *)
(* standing for 1.0.  A log-likelihood l stands for the real value         *)
(* l * ln(2) * BetaOne, so that exp(beta_increment * log_likelihood) is    *)
(* the integer 2^(inc * l) and the sign of the coefficient-of-variation    *)
(* objective is computed exactly.  The population is one-dimensional       *)
(* (d = 1): a sample is an element of XVals.                               *)
(***************************************************************************)
EXTENDS Integers, Sequences, FiniteSets, TLC

\* ---------------------------------------------------------------- bounds
BetaOne == 3           \* grid value of beta = 1.0
MaxBurnIn == 1         \* num_burn_in is drawn from 0..MaxBurnIn

\* ------------------------------------------------- the sampler modelled
NumSamples == 3        \* samples.shape[0], the rows of the population
NumSteps == 1          \* self.num_steps
ThinningFactor == 2    \* self.thinning_factor
AdaptFrequency == 3    \* self.adapt_frequency
ThresholdCov == 1      \* threshold_cov, the default every call here uses
BisectMaxIter == 100   \* iteration cap of the bisection
XTol == 1              \* tolerance of the bisection: one grid unit

XVals == {0, 1}                    \* the sample values
SizeVals == {1, 2}                 \* sizes an evaluator may return for one row
LogUVals == {-3, -1}               \* values of log(u), u ~ Uniform[0, 1)
ApproxShifts == {-2, 0, 2}         \* warm start: shifts of the new approximation

Rows == 1..NumSamples

\* -------------------------------------------------------------- helpers
RECURSIVE Pow2(_)
Pow2(n) == IF n <= 0 THEN 1 ELSE 2 * Pow2(n - 1)

RECURSIVE SumTo(_, _)
SumTo(s, n) == IF n = 0 THEN 0 ELSE s[n] + SumTo(s, n - 1)
SumSeq(s) == SumTo(s, Len(s))

MaxOf(S) == CHOOSE m \in S : \A y \in S : y <= m
MinOf(S) == CHOOSE m \in S : \A y \in S : m <= y
Range(s) == {s[i] : i \in DOMAIN s}
Sign(v) == IF v > 0 THEN 1 ELSE IF v < 0 THEN -1 ELSE 0
Zeros(n) == [i \in 1..n |-> 0]

\* The user-supplied evaluators, as in the module's own example: the
\* log-likelihood of a row, and a log-target density that returns the
\* log-likelihood it is handed.
LogLik(x) == 2 * x
LogTarget(x, l) == l

\* weights[i] / SumSeq(weights) is the normalised weight: exp of the
\* log-weights shifted by a common constant, the normalisation kept implicit.
WeightsOf(log_weights) ==
    LET lo == MinOf(Range(log_weights))
    IN  [i \in DOMAIN log_weights |-> Pow2(log_weights[i] - lo)]

_calculate_weights_warm_start(beta, current_loglikelihoods, previous_loglikelihoods) ==
    WeightsOf([i \in DOMAIN current_loglikelihoods |->
                  beta * (current_loglikelihoods[i] - previous_loglikelihoods[i])])

_calculate_weights(beta_increment, log_likelihoods) ==
    WeightsOf([i \in DOMAIN log_likelihoods |-> beta_increment * log_likelihoods[i]])

\* logsumexp(inc * l) - log(N), kept symbolic: log2(sumexp / n).
_calculate_log_evidence(beta_increment, log_likelihoods) ==
    [sumexp |-> SumSeq([i \in DOMAIN log_likelihoods |->
                           Pow2(beta_increment * log_likelihoods[i])]),
     n |-> Len(log_likelihoods)]

\* sign(nanstd(w) / nanmean(w) - threshold): CoV^2 = n*sum(w^2)/sum(w)^2 - 1.
CovSign(weights, threshold_cov) ==
    LET n == Len(weights)
        sq == SumSeq([i \in DOMAIN weights |-> weights[i] * weights[i]])
        su == SumSeq(weights)
    IN  Sign(n * sq - (1 + threshold_cov * threshold_cov) * su * su)

\* The sign of cov_objective (lines 114-117); the weights are bound once.
cov_objective(beta_increment, log_likelihoods) ==
    CHOOSE sign \in {CovSign(weights, ThresholdCov) :
                        weights \in {_calculate_weights(beta_increment, log_likelihoods)}} :
        TRUE

\* root_scalar(..., method='bisect') on the grid: halve the bracket, keep the
\* half whose end has the sign of f(a), stop at a zero or at the tolerance.
RECURSIVE BisectLoop(_, _, _, _, _)
BisectLoop(ll, fa, xa, dm, it) ==
    LET dm2 == (dm + 1) \div 2
        xm == xa + dm2
        fm == cov_objective(xm, ll)
    IN  IF fm = 0 \/ dm2 <= XTol
        THEN [root |-> xm, converged |-> TRUE]
        ELSE IF it + 1 >= BisectMaxIter
        THEN [root |-> xm, converged |-> FALSE]
        ELSE BisectLoop(ll, fa, IF fm * fa >= 0 THEN xm ELSE xa, dm2, it + 1)

root_scalar(ll, a, b) ==
    IF cov_objective(b, ll) = 0
    THEN [root |-> b, converged |-> TRUE]
    ELSE BisectLoop(ll, cov_objective(a, ll), a, b - a, 0)

\* The trial-and-error fallback: shrink the increment by 0.99 while the
\* coefficient of variation is above the threshold.
RECURSIVE ShrinkIncrement(_, _)
ShrinkIncrement(ll, beta_increment) ==
    IF cov_objective(beta_increment, ll) > 0
    THEN ShrinkIncrement(ll, (99 * beta_increment) \div 100)
    ELSE beta_increment

\* As _increment_beta, the root returned without the current beta added.
IncrementBetaRootOnly(log_likelihoods, beta) ==
    IF cov_objective(0, log_likelihoods) = cov_objective(BetaOne - beta, log_likelihoods)
    THEN BetaOne
    ELSE MinOf({root_scalar(log_likelihoods, 0, BetaOne - beta).root, BetaOne})

_increment_beta(log_likelihoods, beta) ==
    IF cov_objective(0, log_likelihoods) = cov_objective(BetaOne - beta, log_likelihoods)
    THEN BetaOne
    ELSE LET result == root_scalar(log_likelihoods, 0, BetaOne - beta)
         IN  IF result.converged
             THEN MinOf({beta + result.root, BetaOne})
             ELSE MinOf({beta + ShrinkIncrement(log_likelihoods, BetaOne - beta),
                         BetaOne})

\* np.linalg.cholesky of scale^2 * np.cov(samples, aweights=weights) for
\* d = 1: it exists iff the weighted variance is positive, that is iff two
\* rows of positive weight differ.
CholeskyExists(samples, weights) ==
    \E i, j \in DOMAIN samples :
        /\ weights[i] > 0 /\ weights[j] > 0
        /\ samples[i] # samples[j]

_generate_error_message(size) ==
    "Expected a single value, but got " \o ToString(size) \o " values."

\* ---------------------------------------------------------------- state
VARIABLES
    pc,                  \* position of the program
    error,               \* the exception that left run, or NoError
    samples_dict, betas_dict, log_likelihoods_dict,
    log_target_density_values_dict, log_evidence_dict,   \* the run state
    stage_num, num_burn_in,
    self_scale_factor,   \* self.scale_factor
    likelihood_size,     \* the size of what self._log_likelihood_approximation
                         \* returns for one row
    target_size,         \* the same for self._log_posterior_approximation
    \* locals of _run_one_stage
    beta, new_beta, log_evidence, weights, do_thinning,
    new_samples, new_log_likelihoods, new_log_target_density_values,
    current_samples, current_log_likelihoods, current_log_target_density_values,
    num_accepts, n_adapt, step_count, num_steps, scale_factor,
    k, step, index,
    proposed_state, log_likelihood_at_proposed_state,
    log_target_density_at_proposed_state, accept,
    \* history
    rng_calls,           \* the calls made on rng by the stage, in order
    row_writes,          \* row_writes[r]: how often output row r was written
    adaptations,         \* scale adaptations made since run was called
    \* calculate_warm_start_stage
    ws_shift, ws_stage_nums, ws_result

dictVars == <<samples_dict, betas_dict, log_likelihoods_dict,
              log_target_density_values_dict, log_evidence_dict>>
runVars == <<stage_num, num_burn_in, self_scale_factor, likelihood_size, target_size>>
outVars == <<new_samples, new_log_likelihoods, new_log_target_density_values>>
curVars == <<current_samples, current_log_likelihoods,
             current_log_target_density_values>>
adaptVars == <<num_accepts, n_adapt, step_count, scale_factor>>
propVars == <<proposed_state, log_likelihood_at_proposed_state,
              log_target_density_at_proposed_state, accept>>
stageVars == <<beta, new_beta, log_evidence, weights, do_thinning, outVars, curVars,
               adaptVars, num_steps, k, step, index, propVars>>
histVars == <<rng_calls, row_writes, adaptations>>
wsVars == <<ws_shift, ws_stage_nums, ws_result>>
vars == <<pc, error, dictVars, runVars, stageVars, histVars, wsVars>>

NoError == [type |-> "none", msg |-> ""]
NoValue == [size |-> 0, val |-> 0]
Unset == <<"unset">>

\* The scale factor 2.4 / sqrt(d) * exp(ca_1) * ... * exp(ca_m) is kept as the
\* list of its adaptation terms, ca = (accepts / adapt_frequency - target) /
\* sqrt(n_adapt) being named by <<accepts, n_adapt>>.  With d = 1 the target
\* 0.23 + 0.21 / d is no multiple of 1 / adapt_frequency for the frequencies
\* modelled, so every term differs from 0.
InitialScaleFactor == <<>>
AdaptScale(scale, accepts, n) == Append(scale, <<accepts, n>>)

Put(dict, key, value) ==
    [s \in DOMAIN dict \cup {key} |-> IF s = key THEN value ELSE dict[s]]

\* The populations a run starts from, up to the order of their rows (no
\* operation of the sampler depends on it).
InitialPopulations ==
    {pop \in [Rows -> XVals] : \A i \in 1..(NumSamples - 1) : pop[i] <= pop[i + 1]}

\* The state after construction of the sampler: the caller holds the
\* arguments of run, the run state with the initial population at index 0
\* evaluated as the module's example evaluates it, and the burn-in count.
Init ==
    /\ pc = "idle"
    /\ error = NoError
    /\ \E pop \in InitialPopulations, b0 \in 0..BetaOne :
          /\ samples_dict = [s \in {0} |-> pop]
          /\ betas_dict = [s \in {0} |-> b0]
          /\ log_likelihoods_dict = [s \in {0} |-> [i \in Rows |-> LogLik(pop[i])]]
          /\ log_target_density_values_dict =
                 [s \in {0} |-> [i \in Rows |-> LogLik(pop[i])]]
          /\ log_evidence_dict = [s \in {0} |-> [sumexp |-> NumSamples, n |-> NumSamples]]
    /\ stage_num = 0
    /\ num_burn_in \in 0..MaxBurnIn
    /\ self_scale_factor = Unset
    /\ likelihood_size \in SizeVals
    /\ target_size \in SizeVals
    /\ beta = 0 /\ new_beta = 0 /\ log_evidence = 0 /\ weights = <<>>
    /\ do_thinning = FALSE
    /\ new_samples = <<>> /\ new_log_likelihoods = <<>>
    /\ new_log_target_density_values = <<>>
    /\ current_samples = <<>> /\ current_log_likelihoods = <<>>
    /\ current_log_target_density_values = <<>>
    /\ num_accepts = 0 /\ n_adapt = 0 /\ step_count = 0 /\ num_steps = 0
    /\ scale_factor = Unset
    /\ k = 0 /\ step = 0 /\ index = 0
    /\ proposed_state = 0
    /\ log_likelihood_at_proposed_state = NoValue
    /\ log_target_density_at_proposed_state = NoValue
    /\ accept = "none"
    /\ rng_calls = <<>>
    /\ row_writes = <<>>
    /\ adaptations = 0
    /\ ws_shift = 0 /\ ws_stage_nums = <<>> /\ ws_result = -1

\* run, lines 396-398: the call, on the arguments the caller holds, and the
\* derived parameters.
RunCall ==
    /\ pc = "idle"
    /\ UNCHANGED num_burn_in
    /\ stage_num' = 0
    /\ self_scale_factor' = InitialScaleFactor
    /\ adaptations' = 0
    /\ pc' = "loop"
    /\ UNCHANGED <<error, dictVars, likelihood_size, target_size, stageVars,
                   rng_calls, row_writes, wsVars>>

\* As LoopCondition, with <= for <.
LoopConditionInclusive == betas_dict[stage_num] <= BetaOne

\* run, line 399: the condition of the while loop.
LoopCondition == betas_dict[stage_num] < BetaOne

Fail(type, msg) ==
    /\ pc' = "failed"
    /\ error' = [type |-> type, msg |-> msg]

\* run, line 399 true, and _run_one_stage up to its outer loop (253-280).
StageEntry ==
    /\ pc = "loop"
    /\ LoopCondition
    /\ LET samples == samples_dict[stage_num]
           log_likelihoods == log_likelihoods_dict[stage_num]
           log_target_density_values == log_target_density_values_dict[stage_num]
           b == betas_dict[stage_num]
       IN  \E nb \in {_increment_beta(log_likelihoods, b)} :
           \E w \in {_calculate_weights(nb - b, log_likelihoods)} :
           IF ~CholeskyExists(samples, w)
           THEN /\ Fail("RuntimeError", "Cholesky decomposition failed")
                /\ UNCHANGED <<stageVars, rng_calls, row_writes>>
           ELSE /\ pc' = "seed"
                /\ beta' = b
                /\ new_beta' = nb
                /\ log_evidence' = _calculate_log_evidence(nb - b, log_likelihoods)
                /\ weights' = w
                /\ do_thinning' = FALSE
                /\ new_samples' = Zeros(Len(samples))
                /\ new_log_likelihoods' = Zeros(Len(log_likelihoods))
                /\ new_log_target_density_values' = Zeros(Len(log_target_density_values))
                /\ current_samples' = samples
                /\ current_log_likelihoods' = log_likelihoods
                /\ current_log_target_density_values' = log_target_density_values
                /\ num_accepts' = 0
                /\ n_adapt' = 1
                /\ step_count' = 0
                /\ num_steps' = NumSteps
                /\ scale_factor' = self_scale_factor
                /\ k' = 0
                /\ rng_calls' = <<>>
                /\ row_writes' = Zeros(Len(samples))
                /\ UNCHANGED <<error, step, index, propVars>>
    /\ UNCHANGED <<dictVars, runVars, adaptations, wsVars>>

\* As InnerSteps, without the test that burn-in is over.
InnerStepsIgnoringBurnIn(kk, burn_in_steps, nb, thinning, steps) ==
    IF nb = BetaOne \/ thinning THEN NumSteps * ThinningFactor ELSE steps

\* Lines 284-286: the number of inner steps of outer iteration kk, given the
\* number in force so far.
InnerSteps(kk, burn_in_steps, nb, thinning, steps) ==
    IF kk >= burn_in_steps
    THEN IF nb = BetaOne \/ thinning THEN NumSteps * ThinningFactor ELSE steps
    ELSE steps

\* The head of the outer loop, lines 282-286: the seed draw and the step count.
SeedDraw ==
    /\ pc = "seed"
    /\ k < num_burn_in + Len(current_samples)
    /\ \E i \in {r \in DOMAIN weights : weights[r] > 0} : index' = i
    /\ num_steps' = InnerSteps(k, num_burn_in, new_beta, do_thinning, num_steps)
    /\ step' = 0
    /\ rng_calls' = Append(rng_calls, "choice")
    /\ pc' = "step"
    /\ UNCHANGED <<error, dictVars, runVars, beta, new_beta, log_evidence, weights,
                   do_thinning, outVars, curVars, adaptVars, k, propVars,
                   row_writes, adaptations, wsVars>>

\* As AdaptationFailure, the rows written so far stored before the error leaves.
AdaptationFailureStoresRows ==
    /\ Fail("LinAlgError", "Matrix is not positive definite")
    /\ samples_dict' = Put(samples_dict, stage_num + 1, new_samples)
    /\ UNCHANGED <<betas_dict, log_likelihoods_dict, log_target_density_values_dict,
                   log_evidence_dict>>

\* Lines 301-303: np.linalg.cholesky fails, outside any try, and the error
\* leaves _run_one_stage and run.
AdaptationFailure ==
    /\ Fail("LinAlgError", "Matrix is not positive definite")
    /\ UNCHANGED dictVars

\* As AcceptsAfterAdaptation, the counter left as it is.
AcceptsKeptAfterAdaptation(accepts) == accepts

\* Line 292: num_accepts = 0 at a scale adaptation.
AcceptsAfterAdaptation(accepts) == 0

\* The head of the inner loop, lines 288-303: the step counter and, every
\* adapt_frequency steps, the adaptation of the scale factor.
StepBegin ==
    /\ pc = "step"
    /\ step < num_steps
    /\ step' = step + 1
    /\ step_count' = step_count + 1
    /\ IF (step_count + 1) % AdaptFrequency = 0
       THEN /\ num_accepts' = AcceptsAfterAdaptation(num_accepts)
            /\ n_adapt' = n_adapt + 1
            /\ scale_factor' = AdaptScale(scale_factor, num_accepts, n_adapt + 1)
            /\ adaptations' = adaptations + 1
            /\ IF CholeskyExists(current_samples, weights)
               THEN pc' = "propose" /\ UNCHANGED <<error, dictVars>>
               ELSE AdaptationFailure
       ELSE /\ pc' = "propose"
            /\ UNCHANGED <<error, dictVars, num_accepts, n_adapt, scale_factor,
                           adaptations>>
    /\ UNCHANGED <<runVars, beta, new_beta, log_evidence, weights,
                   do_thinning, outVars, curVars, num_steps, k, index, propVars,
                   rng_calls, row_writes, wsVars>>

\* Lines 305-318: the proposal noise, the proposed row and the two evaluator
\* calls on it.  The noise is continuous, so any sample value may be proposed.
Propose ==
    /\ pc = "propose"
    /\ \E x \in XVals :
          /\ proposed_state' = x
          /\ log_likelihood_at_proposed_state' =
                 [size |-> likelihood_size, val |-> LogLik(x)]
          /\ log_target_density_at_proposed_state' =
                 [size |-> target_size, val |-> LogTarget(x, LogLik(x))]
    /\ rng_calls' = Append(rng_calls, "normal")
    /\ pc' = "accept"
    /\ UNCHANGED <<error, dictVars, runVars, beta, new_beta, log_evidence, weights,
                   do_thinning, outVars, curVars, adaptVars, num_steps, k, step,
                   index, accept, row_writes, adaptations, wsVars>>

\* As DrawUniform, the draw left out.
DrawNothing(calls) == calls

\* Line 323: u = rng.uniform().
DrawUniform(calls) == Append(calls, "uniform")

\* As WeightsAfterAccept, recomputed during burn-in too.
WeightsAfterAcceptAlways(kk, burn_in_steps, w, beta_increment, log_likelihoods) ==
    _calculate_weights(beta_increment, log_likelihoods)

\* Lines 348-351: the weights after an accepted move of outer iteration kk.
WeightsAfterAccept(kk, burn_in_steps, w, beta_increment, log_likelihoods) ==
    IF kk >= burn_in_steps
    THEN _calculate_weights(beta_increment, log_likelihoods)
    ELSE w

\* Lines 319-351: the Hastings ratio, the uniform draw, the test and the
\* accepted move.  A target density of several values makes the test
\* "if accept" raise numpy's error for the truth value of an array.
AcceptReject ==
    /\ pc = "accept"
    /\ rng_calls' = DrawUniform(rng_calls)
    /\ \E log_u \in LogUVals :
        IF log_target_density_at_proposed_state.size # 1
        THEN /\ accept' = "array"
             /\ Fail("ValueError",
                     "The truth value of an array with more than one element is ambiguous.")
             /\ UNCHANGED <<curVars, num_accepts, weights>>
        ELSE LET log_hastings_ratio ==
                     log_target_density_at_proposed_state.val
                     - current_log_target_density_values[index]
             IN  IF ~(log_u <= log_hastings_ratio)
                 THEN /\ accept' = "False"
                      /\ pc' = "step"
                      /\ UNCHANGED <<error, curVars, num_accepts, weights>>
                 ELSE /\ accept' = "True"
                      /\ num_accepts' = num_accepts + 1
                      /\ current_samples' =
                             [current_samples EXCEPT ![index] = proposed_state]
                      /\ IF log_likelihood_at_proposed_state.size # 1
                         THEN /\ Fail("ValueError",
                                      _generate_error_message(
                                          log_likelihood_at_proposed_state.size))
                              /\ UNCHANGED <<current_log_likelihoods,
                                             current_log_target_density_values,
                                             weights>>
                         ELSE /\ current_log_likelihoods' =
                                     [current_log_likelihoods EXCEPT
                                         ![index] = log_likelihood_at_proposed_state.val]
                              /\ IF log_target_density_at_proposed_state.size # 1
                                 THEN /\ Fail("ValueError",
                                              _generate_error_message(
                                                  log_target_density_at_proposed_state.size))
                                      /\ UNCHANGED <<current_log_target_density_values,
                                                     weights>>
                                 ELSE /\ current_log_target_density_values' =
                                             [current_log_target_density_values EXCEPT
                                                 ![index] =
                                                  log_target_density_at_proposed_state.val]
                                      /\ weights' =
                                             WeightsAfterAccept(
                                                 k, num_burn_in, weights,
                                                 new_beta - beta,
                                                 current_log_likelihoods')
                                      /\ pc' = "step"
                                      /\ UNCHANGED error
    /\ UNCHANGED <<dictVars, runVars, beta, new_beta, log_evidence, do_thinning,
                   outVars, n_adapt, step_count, scale_factor, num_steps, k, step,
                   index, proposed_state, log_likelihood_at_proposed_state,
                   log_target_density_at_proposed_state, row_writes, adaptations,
                   wsVars>>

\* As OutputRow, the burn-in iterations not subtracted.
OutputRowOfIteration(kk, burn_in_steps) == kk + 1

\* Line 353: the output row of outer iteration kk (rows are numbered from 1).
OutputRow(kk, burn_in_steps) == kk - burn_in_steps + 1

\* The end of one outer iteration, lines 352-358: past burn-in, the row of
\* the seed is written to the output.
Emit ==
    /\ pc = "step"
    /\ step >= num_steps
    /\ IF k >= num_burn_in
       THEN LET k_prime == OutputRow(k, num_burn_in)
            IN  /\ new_samples' = [new_samples EXCEPT ![k_prime] = current_samples[index]]
                /\ new_log_likelihoods' =
                       [new_log_likelihoods EXCEPT
                           ![k_prime] = current_log_likelihoods[index]]
                /\ new_log_target_density_values' =
                       [new_log_target_density_values EXCEPT
                           ![k_prime] = current_log_target_density_values[index]]
                /\ row_writes' = [r \in DOMAIN row_writes |->
                                     IF r = k_prime THEN row_writes[r] + 1
                                     ELSE row_writes[r]]
       ELSE UNCHANGED <<outVars, row_writes>>
    /\ k' = k + 1
    /\ pc' = "seed"
    /\ UNCHANGED <<error, dictVars, runVars, beta, new_beta, log_evidence, weights,
                   do_thinning, curVars, adaptVars, num_steps, step, index, propVars,
                   rng_calls, adaptations, wsVars>>

\* As ScaleAfterStage, the scale factor of the stage kept by the sampler.
ScaleKeptAfterStage(sampler_scale, stage_scale) == stage_scale

\* Lines 360-366 and 402-420: the scale factor is a local of the stage, it is
\* not among the values returned and self.scale_factor is not assigned.
ScaleAfterStage(sampler_scale, stage_scale) == sampler_scale

\* The stage returns (360-366) and run records it (421-426).
StageAppend ==
    /\ pc = "seed"
    /\ k >= num_burn_in + Len(current_samples)
    /\ stage_num' = stage_num + 1
    /\ samples_dict' = Put(samples_dict, stage_num + 1, new_samples)
    /\ betas_dict' = Put(betas_dict, stage_num + 1, new_beta)
    /\ log_likelihoods_dict' = Put(log_likelihoods_dict, stage_num + 1, new_log_likelihoods)
    /\ log_target_density_values_dict' =
           Put(log_target_density_values_dict, stage_num + 1,
               new_log_target_density_values)
    /\ log_evidence_dict' = Put(log_evidence_dict, stage_num + 1, log_evidence)
    /\ self_scale_factor' = ScaleAfterStage(self_scale_factor, scale_factor)
    /\ pc' = "loop"
    \* the frame of the stage is gone
    /\ beta' = 0 /\ new_beta' = 0 /\ log_evidence' = 0 /\ weights' = <<>>
    /\ do_thinning' = FALSE
    /\ new_samples' = <<>> /\ new_log_likelihoods' = <<>>
    /\ new_log_target_density_values' = <<>>
    /\ current_samples' = <<>> /\ current_log_likelihoods' = <<>>
    /\ current_log_target_density_values' = <<>>
    /\ num_accepts' = 0 /\ n_adapt' = 0 /\ step_count' = 0 /\ num_steps' = 0
    /\ scale_factor' = Unset
    /\ k' = 0 /\ step' = 0 /\ index' = 0
    /\ proposed_state' = 0
    /\ log_likelihood_at_proposed_state' = NoValue
    /\ log_target_density_at_proposed_state' = NoValue
    /\ accept' = "none"
    /\ rng_calls' = <<>>
    /\ row_writes' = <<>>
    /\ UNCHANGED <<error, num_burn_in, likelihood_size, target_size, adaptations,
                   wsVars>>

\* run, line 399 false, and the return (428-434).
RunReturn ==
    /\ pc = "loop"
    /\ ~LoopCondition
    /\ pc' = "returned"
    /\ UNCHANGED <<error, dictVars, runVars, stageVars, histVars, wsVars>>

\* The new log-likelihood approximation handed to the warm-start selector:
\* the evaluator shifted by shift per unit of the sample value.
Approximation(shift, samples) ==
    [i \in DOMAIN samples |-> LogLik(samples[i]) + shift * samples[i]]

\* As SortedDescending, in ascending order.
RECURSIVE SortedAscending(_)
SortedAscending(S) ==
    IF S = {} THEN <<>> ELSE <<MinOf(S)>> \o SortedAscending(S \ {MinOf(S)})

\* Line 47: sorted(keys, reverse=True).
RECURSIVE SortedDescending(_)
SortedDescending(S) ==
    IF S = {} THEN <<>> ELSE <<MaxOf(S)>> \o SortedDescending(S \ {MaxOf(S)})

\* calculate_warm_start_stage is called on the results of the run, line 47.
WarmStartCall ==
    /\ pc = "returned"
    /\ \E shift \in ApproxShifts : ws_shift' = shift
    /\ ws_stage_nums' = SortedDescending(DOMAIN samples_dict)
    /\ ws_result' = -1
    /\ pc' = "warm_start"
    /\ UNCHANGED <<error, dictVars, runVars, stageVars, histVars>>

\* The test of lines 49-58 on one stage of the previous results.
WarmStartTest(stage) ==
    LET current_loglikelihoods == Approximation(ws_shift, samples_dict[stage])
        previous_loglikelihoods == log_likelihoods_dict[stage]
        w == _calculate_weights_warm_start(betas_dict[stage], current_loglikelihoods,
                                           previous_loglikelihoods)
    IN  CovSign(w, ThresholdCov) < 0

\* One iteration of the loop of lines 48-59, or its exhaustion, line 60.
WarmStartScan ==
    /\ pc = "warm_start"
    /\ IF ws_stage_nums = <<>>
       THEN /\ ws_result' = 0
            /\ pc' = "warm_start_returned"
            /\ UNCHANGED ws_stage_nums
       ELSE IF WarmStartTest(Head(ws_stage_nums))
       THEN /\ ws_result' = Head(ws_stage_nums)
            /\ pc' = "warm_start_returned"
            /\ UNCHANGED ws_stage_nums
       ELSE /\ ws_stage_nums' = Tail(ws_stage_nums)
            /\ UNCHANGED <<pc, ws_result>>
    /\ UNCHANGED <<error, dictVars, runVars, stageVars, histVars, ws_shift>>

Next ==
    \/ RunCall
    \/ StageEntry
    \/ SeedDraw
    \/ StepBegin
    \/ Propose
    \/ AcceptReject
    \/ Emit
    \/ StageAppend
    \/ RunReturn
    \/ WarmStartCall
    \/ WarmStartScan

Spec == Init /\ [][Next]_vars

\* The run alone, without burn-in, under the sequential scheduling of the
\* program: a step that can be taken is taken.
RunNext ==
    \/ RunCall
    \/ StageEntry
    \/ SeedDraw
    \/ StepBegin
    \/ Propose
    \/ AcceptReject
    \/ Emit
    \/ StageAppend
    \/ RunReturn

LiveInit == Init /\ num_burn_in = 0

LiveSpec == LiveInit /\ [][RunNext]_vars /\ WF_vars(RunNext)

\* --------------------------------------------------------------- claims
InStage == pc \in {"seed", "step", "propose", "accept"}
StageKeys == 0..stage_num

\* C1: the recorded betas lie in [0, 1] and never decrease from one stage to
\* the next, and a stage is appended only after a stage of beta < 1: only
\* the latest stage may have beta = 1, and a run entered at beta = 1 adds
\* no key.
BetasMonotone ==
    /\ DOMAIN betas_dict = StageKeys
    /\ \A t \in DOMAIN betas_dict : 0 <= betas_dict[t] /\ betas_dict[t] <= BetaOne
    /\ \A t \in DOMAIN betas_dict :
          t + 1 \in DOMAIN betas_dict =>
              /\ betas_dict[t + 1] >= betas_dict[t]
              /\ betas_dict[t] < BetaOne
    /\ pc \in {"returned", "warm_start", "warm_start_returned"} =>
          betas_dict[stage_num] = BetaOne

\* A run of three stages has returned: beta rose twice below 1, then reached it.
BetasMonotoneWitness ==
    /\ pc = "returned"
    /\ stage_num = 3
    /\ betas_dict[1] > betas_dict[0]
    /\ betas_dict[2] > betas_dict[1]
    /\ betas_dict[2] < BetaOne

\* C2: run ends, by its return with a stage of beta = 1 recorded or by a
\* fatal error, and every stage it records has a beta strictly above the
\* beta of the stage before.
RunTerminates ==
    /\ <>(pc \in {"returned", "failed"})
    /\ [][betas_dict' # betas_dict =>
             /\ stage_num' = stage_num + 1
             /\ betas_dict'[stage_num'] > betas_dict[stage_num]]_vars
    /\ [](pc = "returned" => betas_dict[stage_num] = BetaOne)

\* A run that began at beta = 0 has returned after more than one stage.
RunTerminatesWitness ==
    /\ pc = "returned"
    /\ betas_dict[0] = 0
    /\ stage_num >= 2
    /\ betas_dict[stage_num] = BetaOne

\* C3: the five mappings have the same stage keys in every state, and when a
\* fatal error has left run they have no entry above the index the failed
\* stage started from.
SameStageKeys ==
    /\ DOMAIN samples_dict = StageKeys
    /\ DOMAIN betas_dict = StageKeys
    /\ DOMAIN log_likelihoods_dict = StageKeys
    /\ DOMAIN log_target_density_values_dict = StageKeys
    /\ DOMAIN log_evidence_dict = StageKeys
    /\ pc = "failed" => error.type # "none"
    /\ pc # "failed" => error = NoError

\* The Cholesky factorisation has failed during a scale adaptation of a
\* stage after the first, some output rows of that stage already written.
SameStageKeysWitness ==
    /\ pc = "failed"
    /\ error.type = "LinAlgError"
    /\ stage_num >= 1
    /\ \E r \in DOMAIN row_writes : row_writes[r] > 0

\* C4: a Metropolis-Hastings step whose proposed row got a value of size
\* n # 1 from an evaluator ends run with the error "Expected a single value,
\* but got <n> values."; no such step goes on to the next step.
InvalidSizeAborts ==
    [][(/\ pc = "accept"
        /\ \/ log_likelihood_at_proposed_state.size # 1
           \/ log_target_density_at_proposed_state.size # 1)
       => /\ pc' = "failed"
          /\ error'.type = "ValueError"
          /\ error'.msg \in
                {_generate_error_message(v.size) :
                    v \in {w \in {log_likelihood_at_proposed_state,
                                  log_target_density_at_proposed_state} :
                              w.size # 1}}]_vars

\* C5: the outer loop of a stage runs burn_in_steps + N iterations; after
\* iteration k the output rows 1..(k + 1 - burn_in_steps) have been written
\* once each and no other row has been written; every stage record holds N
\* samples, N log-likelihoods and N log-target-density values.
EachRowWrittenOnce ==
    /\ InStage =>
          /\ k <= num_burn_in + NumSamples
          /\ DOMAIN row_writes = Rows
          /\ \A r \in Rows : row_writes[r] = IF r <= k - num_burn_in THEN 1 ELSE 0
          /\ Len(new_samples) = NumSamples
          /\ Len(new_log_likelihoods) = NumSamples
          /\ Len(new_log_target_density_values) = NumSamples
    /\ \A s \in DOMAIN samples_dict :
          /\ Len(samples_dict[s]) = NumSamples
          /\ Len(log_likelihoods_dict[s]) = NumSamples
          /\ Len(log_target_density_values_dict[s]) = NumSamples

\* The outer loop of a stage with burn-in has ended, after a stage recorded
\* before it.
EachRowWrittenOnceWitness ==
    /\ pc = "seed"
    /\ num_burn_in > 0
    /\ k = num_burn_in + NumSamples
    /\ \A r \in Rows : row_writes[r] = 1
    /\ stage_num >= 1

\* C6: calculate_warm_start_stage returns the highest stage key that passes
\* the test, 0 if none does; while it scans, the keys left are in descending
\* order and every key already passed over has failed the test.
WarmStartHighest ==
    /\ pc = "warm_start_returned" =>
          LET passing == {s \in DOMAIN samples_dict : WarmStartTest(s)}
          IN  ws_result = IF passing = {} THEN 0 ELSE MaxOf(passing)
    /\ pc = "warm_start" =>
          /\ \A i \in 1..(Len(ws_stage_nums) - 1) :
                ws_stage_nums[i] > ws_stage_nums[i + 1]
          /\ \A s \in DOMAIN samples_dict :
                \/ s \in Range(ws_stage_nums)
                \/ /\ ~WarmStartTest(s)
                   /\ \A t \in Range(ws_stage_nums) : t < s

\* The selector has returned a stage below the last one: the stages above
\* it fail the test, and a stage below it passes the test too.
WarmStartHighestWitness ==
    /\ pc = "warm_start_returned"
    /\ ws_result >= 1
    /\ ws_result < stage_num
    /\ ~WarmStartTest(stage_num)
    /\ WarmStartTest(0)

\* The inner steps of outer iteration i of the stage in progress.
StepsOf(i) ==
    IF i >= num_burn_in /\ (new_beta = BetaOne \/ do_thinning)
    THEN NumSteps * ThinningFactor
    ELSE NumSteps

RECURSIVE Repeat(_, _)
Repeat(s, n) == IF n <= 0 THEN <<>> ELSE s \o Repeat(s, n - 1)

RECURSIVE CallsOfIterations(_)
CallsOfIterations(n) ==
    IF n = 0 THEN <<>>
    ELSE CallsOfIterations(n - 1) \o <<"choice">>
         \o Repeat(<<"normal", "uniform">>, StepsOf(n - 1))

\* C7: the calls a stage has made on the generator are, per outer
\* iteration, one seed draw and then per inner step one normal draw followed
\* by one uniform draw, whether or not the proposal was accepted: the
\* sequence is fixed by the position in the loops and the step counts.
RngOrder ==
    InStage =>
        rng_calls =
            CASE pc = "seed" -> CallsOfIterations(k)
              [] pc = "step" ->
                    CallsOfIterations(k) \o <<"choice">>
                    \o Repeat(<<"normal", "uniform">>, step)
              [] pc = "propose" ->
                    CallsOfIterations(k) \o <<"choice">>
                    \o Repeat(<<"normal", "uniform">>, step - 1)
              [] pc = "accept" ->
                    CallsOfIterations(k) \o <<"choice">>
                    \o Repeat(<<"normal", "uniform">>, step - 1) \o <<"normal">>

\* A step of the last stage has ended with the proposal rejected, after
\* burn-in iterations.
RngOrderWitness ==
    /\ pc = "step"
    /\ accept = "False"
    /\ new_beta = BetaOne
    /\ num_burn_in > 0
    /\ k >= num_burn_in
    /\ step = NumSteps * ThinningFactor

\* C8: the inner loop of outer iteration k runs num_steps * thinning_factor
\* steps if k >= burn_in_steps and (new beta = 1 or do_thinning), and
\* num_steps steps otherwise.
InnerStepCount ==
    pc \in {"step", "propose", "accept"} =>
        /\ num_steps = StepsOf(k)
        /\ step <= num_steps
        /\ pc # "step" => step >= 1

\* A burn-in iteration of the last stage has run its num_steps steps, fewer
\* than the thinned count.
InnerStepCountWitness ==
    /\ pc = "step"
    /\ k < num_burn_in
    /\ new_beta = BetaOne
    /\ step = num_steps
    /\ step = NumSteps
    /\ NumSteps < NumSteps * ThinningFactor

\* The weights computed at the entry of the stage in progress.
EntryWeights == _calculate_weights(new_beta - beta, log_likelihoods_dict[stage_num])

\* C9: within a stage the weights change only at an accepted step of an
\* iteration k >= burn_in_steps, where they become the weights of the
\* current log-likelihoods for the increment new_beta - beta; a seed of a
\* burn-in iteration is drawn with the weights of the stage entry; a
\* rejected proposal changes none of the current samples, log-likelihoods,
\* log-target-density values, weights and acceptance counter.
WeightsFrame ==
    [][(InStage /\ pc' \in {"seed", "step", "propose", "accept", "failed"}) =>
          /\ weights' # weights =>
                pc = "accept" /\ accept' = "True" /\ k >= num_burn_in
          /\ (pc = "accept" /\ accept' = "True" /\ pc' = "step" /\ k >= num_burn_in) =>
                weights' = _calculate_weights(new_beta - beta, current_log_likelihoods')
          /\ (pc = "seed" /\ k < num_burn_in) => weights = EntryWeights
          /\ (pc = "accept" /\ accept' = "False") =>
                UNCHANGED <<curVars, weights, num_accepts>>]_vars

\* After burn-in iterations, an accepted move has left weights that differ
\* from those of the stage entry.
WeightsFrameWitness ==
    /\ pc = "step"
    /\ accept = "True"
    /\ num_burn_in > 0
    /\ k >= num_burn_in
    /\ weights # EntryWeights

\* C10: self.scale_factor stays 2.4 / sqrt(d) once run has set it, and every
\* stage starts with that scale factor, no accepts, no steps and the
\* adaptation epoch 1, whatever was adapted in the stages before.
ScaleStageLocal ==
    /\ pc # "idle" => self_scale_factor = InitialScaleFactor
    /\ (pc = "seed" /\ k = 0) =>
          /\ scale_factor = InitialScaleFactor
          /\ num_accepts = 0
          /\ step_count = 0
          /\ n_adapt = 1

\* A stage starts after a stage in which the scale factor was adapted.
ScaleStageLocalWitness ==
    /\ pc = "seed"
    /\ k = 0
    /\ stage_num >= 1
    /\ adaptations >= 1

\* The steps of the stage in progress whose accept test has run since the
\* acceptance counter was last set to 0 (at the stage entry or at a scale
\* adaptation, which precedes the accept test of its own step).
AcceptTestsSinceEvent ==
    IF pc \in {"seed", "step"}
    THEN IF step_count < AdaptFrequency THEN step_count
         ELSE (step_count % AdaptFrequency) + 1
    ELSE IF step_count < AdaptFrequency THEN step_count - 1
         ELSE step_count % AdaptFrequency

\* C11: the acceptance counter never exceeds the number of steps tested
\* since it was last reset, which is at most adapt_frequency; a scale
\* adaptation happens when step_count is a multiple of adapt_frequency, reads
\* a counter in 0..adapt_frequency, uses it for the new scale factor and
\* resets it to 0; otherwise the counter changes only by one, at an accepted
\* step, in burn-in iterations as in the others.
AdaptCounter ==
    /\ [](InStage =>
            /\ 0 <= num_accepts
            /\ num_accepts <= AcceptTestsSinceEvent
            /\ AcceptTestsSinceEvent <= AdaptFrequency)
    /\ [][(InStage /\ pc' \in {"seed", "step", "propose", "accept", "failed"}) =>
             /\ n_adapt' # n_adapt =>
                   /\ pc = "step"
                   /\ step_count' % AdaptFrequency = 0
                   /\ num_accepts \in 0..AdaptFrequency
                   /\ num_accepts' = 0
                   /\ n_adapt' = n_adapt + 1
                   /\ scale_factor' = AdaptScale(scale_factor, num_accepts, n_adapt')
             /\ (n_adapt' = n_adapt /\ pc = "step" /\ pc' # "seed") =>
                   step_count' % AdaptFrequency # 0
             /\ (num_accepts' # num_accepts /\ n_adapt' = n_adapt) =>
                   /\ pc = "accept"
                   /\ accept' = "True"
                   /\ num_accepts' = num_accepts + 1]_vars

\* The second adaptation of a stage with burn-in has read a full counter:
\* every one of the adapt_frequency steps since the first adaptation, spread
\* over several outer iterations, was accepted.
AdaptCounterWitness ==
    /\ pc = "propose"
    /\ num_burn_in > 0
    /\ Len(scale_factor) = 2
    /\ scale_factor[2][1] = AdaptFrequency
    /\ num_accepts = 0
    /\ step_count = 2 * AdaptFrequency

====
